---- MODULE Spec2Model ----
(***************************************************************************)
(* A model of exporter_exporter's request pipeline (main.go, http.go):     *)
(* the middleware chain, the dispatcher and its listing, the module        *)
(* executor with its metrics, the reverse proxy director, the TLS setup    *)
(* and the listener orchestration.                                         *)
(*                                                                         *)
(* Strings whose bytes matter (the Authorization header, the bearer        *)
(* secret) are sequences of one-character strings.                         *)
(***************************************************************************)
EXTENDS Integers, Sequences, FiniteSets, TLC

VARIABLES
    \* ---- request pipeline
    cfg,                \* *config after setup(): acl, bearerToken
    req,                \* the request being served
    pc,                 \* "idle" | "serve" | "backend" | "unwind" | "done"
    depth,              \* position in the handler chain of the handler to run
    status,             \* responseWriterWithStatus.status (0 before the wrapper exists)
    body,               \* response body written
    trace,              \* handlers that ran for this request, in order
    curModule,          \* name of the module the dispatcher delegated to, "" if none
    backendErr,         \* outcome of the module's backend call
    proxyErrorCount,    \* expexp_proxy_errors_total, by label
    proxyTimeoutCount,  \* expexp_proxy_timeout_errors_total, by label
    proxyDuration,      \* number of observations of expexp_proxy_duration_seconds, by label
    accessLog,          \* access-log records emitted for this request
    pre,                \* the metrics as they were when the request was accepted
    nreq,               \* requests completed
    \* ---- reverse proxy director
    dcfg,               \* the HTTP module's configuration
    din,                \* the inbound request handed to the director, <<>> if none
    dout,               \* the outbound requests the director made of copies of din
    \* ---- listener orchestration
    srv,                \* per listener, the state of srvr.Serve
    inflight,           \* per listener, the requests accepted and still being handled
    sd,                 \* per listener, the goroutine that waits for ctx and shuts down
    ctxDone,            \* the errgroup's context is cancelled
    gerr,               \* the errgroup's first error, "" if none
    exited,             \* the process has exited
    exitCode,           \* its exit status
    \* ---- TLS setup
    flags,              \* the web.tls.* flags and the state of the files they name
    tpc,                \* "off"; "flags" before setupTLS, then "ready" or "fatal"
    tlsConfig,          \* the *tls.Config setupTLS returned
    tlsErr,             \* the error setupTLS returned, "" for nil
    handshakes          \* outcomes of the client handshakes on the TLS listener

pipeVars == <<cfg, req, pc, depth, status, body, trace, curModule, backendErr,
              proxyErrorCount, proxyTimeoutCount, proxyDuration, accessLog, pre, nreq>>

dirVars == <<dcfg, din, dout>>

lsnVars == <<srv, inflight, sd, ctxDone, gerr, exited, exitCode>>

tlsVars == <<flags, tpc, tlsConfig, tlsErr, handshakes>>

vars == <<pipeVars, dirVars, lsnVars, tlsVars>>

----------------------------------------------------------------------------
(* Bounds *)

MaxRequests == 2
MaxModVals == 2
MaxPieces == 5
MaxInQuery == 3
MaxDefQuery == 2
MaxInflight == 2
MaxHandshakes == 1

----------------------------------------------------------------------------
(* Byte strings *)

SP == " "
BearerWord == <<"B", "e", "a", "r", "e", "r">>
BasicWord == <<"B", "a", "s", "i", "c">>

RECURSIVE Flatten(_)
Flatten(ss) == IF ss = <<>> THEN <<>> ELSE Head(ss) \o Flatten(Tail(ss))

\* strings.Index(s, " "): 0 when there is no space
RECURSIVE IndexSP(_, _)
IndexSP(s, i) ==
    IF i > Len(s) THEN 0
    ELSE IF s[i] = SP THEN i
    ELSE IndexSP(s, i + 1)

\* strings.Split(s, " "): every space separates
RECURSIVE SplitAllSP(_)
SplitAllSP(s) ==
    LET i == IndexSP(s, 1)
    IN IF i = 0 THEN <<s>>
       ELSE <<SubSeq(s, 1, i - 1)>> \o SplitAllSP(SubSeq(s, i + 1, Len(s)))

\* strings.SplitN(s, " ", 2): only the first space separates
SplitN2(s) ==
    LET i == IndexSP(s, 1)
    IN IF i = 0 THEN <<s>>
       ELSE <<SubSeq(s, 1, i - 1), SubSeq(s, i + 1, Len(s))>>

----------------------------------------------------------------------------
(* Responses *)

Body(msg, arg) == [msg |-> msg, arg |-> arg]
NoBody == Body("", <<>>)

StatusOK == 200
StatusBadRequest == 400
StatusUnauthorized == 401
StatusForbidden == 403
StatusNotFound == 404
StatusInternalServerError == 500
StatusBadGateway == 502
StatusGatewayTimeout == 504

----------------------------------------------------------------------------
(* Configuration *)

\* the defaults of -web.proxy-path and -web.telemetry-path
ProxyPath == "/proxy"
TelemetryPath == "/metrics"

\* values -web.proxy-path is given
ProxyPathFlags == {"/proxy", "proxy", "/scrape", "/scrape/", "/metrics"}

\* path.Clean("/" + p), for the values of ProxyPathFlags and TelemetryPath
CleanRooted(p) ==
    CASE p = "/proxy" -> "/proxy"
      [] p = "proxy" -> "/proxy"
      [] p = "/scrape" -> "/scrape"
      [] p = "/scrape/" -> "/scrape"
      [] p = "/metrics" -> "/metrics"

\* the module registry delivered by the configuration loader
Modules ==
    [n \in {"a", "e", "unknown"} |->
        CASE n = "a" -> [name |-> "a", Method |-> "http", Timeout |-> 1]
          [] n = "e" -> [name |-> "e", Method |-> "exec", Timeout |-> 1]
          [] n = "unknown" -> [name |-> "unknown", Method |-> "exec", Timeout |-> 0]]

\* the modules a configuration registers, by name
GetModules(c) == [n \in c.modules |-> Modules[n]]

getModule(n) == IF n \in DOMAIN GetModules(cfg) THEN <<GetModules(cfg)[n]>> ELSE <<>>

Labels == DOMAIN Modules \cup {"unknown"}

\* addresses are bit strings, a network is the bit string of its prefix
Contains(network, addr) ==
    /\ Len(network) <= Len(addr)
    /\ SubSeq(addr, 1, Len(network)) = network

ACLs ==
    { <<>>,
      << <<1>> >>,
      << <<1, 1>>, <<0, 0>> >>,
      << <<1>>, <<1, 0>> >> }

BearerTokens == { <<>>, <<"s">> }

\* setup's result for the path flags: the two cleaned paths, or an error
\* when they are the same
setup(pPath, tPath) ==
    LET pp == CleanRooted(pPath)
        tp == CleanRooted(tPath)
    IN  IF pp = tp
        THEN [err |-> "flags -web.proxy-path and -web.telemetry-path can not be set to the same value",
              proxyPath |-> "", telemetryPath |-> ""]
        ELSE [err |-> "", proxyPath |-> pp, telemetryPath |-> tp]

\* the configurations of a gateway started with the default paths
Configs == [acl : ACLs, bearerToken : BearerTokens,
            proxyPath : {setup(ProxyPath, TelemetryPath).proxyPath},
            telemetryPath : {setup(ProxyPath, TelemetryPath).telemetryPath},
            modules : {DOMAIN Modules}]

----------------------------------------------------------------------------
(* Requests *)

\* r.RemoteAddr: "host:port" when wellFormed; the host an IP literal when isIP
RemoteAddrs ==
    { [wellFormed |-> TRUE, isIP |-> TRUE, bits |-> <<1, 0, 1>>],
      [wellFormed |-> TRUE, isIP |-> TRUE, bits |-> <<0, 0, 1>>],
      [wellFormed |-> TRUE, isIP |-> TRUE, bits |-> <<0, 1, 1>>],
      [wellFormed |-> FALSE, isIP |-> TRUE, bits |-> <<1, 0, 1>>],
      [wellFormed |-> TRUE, isIP |-> FALSE, bits |-> <<>>] }

Authorizations ==
    { <<>>,
      Flatten(<<BearerWord, <<SP>>, <<"s">> >>),
      Flatten(<<BearerWord, <<SP>>, <<"t">> >>) }

Paths == {ProxyPath, TelemetryPath, "/", "/other"}

\* values of the Accept header, "" when there is none
Accepts == {"", "application/json", "application/json;q=0.9"}

ModuleNames == DOMAIN Modules \cup {"missing"}

SeqsUpTo(S, n) == UNION { [1..k -> S] : k \in 0..n }

ModuleQueries == SeqsUpTo(ModuleNames, MaxModVals)

Requests ==
    { [remoteAddr |-> ra, authorization |-> au, path |-> p, module |-> q, accept |-> ""] :
        ra \in RemoteAddrs, au \in Authorizations,
        p \in Paths \ {ProxyPath, "/"}, q \in {<<>>} }
    \cup
    { [remoteAddr |-> ra, authorization |-> au, path |-> "/", module |-> <<>>, accept |-> ac] :
        ra \in RemoteAddrs, au \in Authorizations, ac \in Accepts }
    \cup
    { [remoteAddr |-> ra, authorization |-> au, path |-> ProxyPath, module |-> q, accept |-> ""] :
        ra \in RemoteAddrs, au \in Authorizations, q \in ModuleQueries }

NoRequest ==
    [remoteAddr |-> [wellFormed |-> FALSE, isIP |-> FALSE, bits |-> <<>>],
     authorization |-> <<>>, path |-> "", module |-> <<>>, accept |-> ""]

\* net.SplitHostPort(r.RemoteAddr)
SplitHostPort(ra) ==
    IF ra.wellFormed
    THEN [err |-> FALSE, host |-> [isIP |-> ra.isIP, bits |-> ra.bits]]
    ELSE [err |-> TRUE, host |-> [isIP |-> FALSE, bits |-> <<>>]]

\* net.ParseIP(host): <<addr>>, or <<>> for nil
ParseIP(host) == IF host.isIP THEN <<host.bits>> ELSE <<>>

\* Authorization headers and secrets for the bearer check, byte by byte:
\* every concatenation of up to MaxPieces pieces
Pieces == {BearerWord, BasicWord, <<SP>>, <<"s">>, <<"t">>}

HeaderSet == { Flatten(ps) : ps \in SeqsUpTo(Pieces, MaxPieces) }

BearerSecrets == { <<"s">>, <<"s", "t">>, <<"s", SP, "t">> }

AuthRequests ==
    { [remoteAddr |-> [wellFormed |-> TRUE, isIP |-> TRUE, bits |-> <<1, 0, 1>>],
       authorization |-> au, path |-> "/", module |-> <<>>, accept |-> ""] : au \in HeaderSet }

----------------------------------------------------------------------------
(* main: the handler chain, built inside-out *)

BuildHandlerSwapped(c) ==
    LET h0 == <<"mux">>
        h1 == IF Len(c.acl) > 0 THEN <<"acl">> \o h0 ELSE h0
        h2 == IF c.bearerToken # <<>> THEN <<"bearer">> \o h1 ELSE h1
    IN  <<"accesslog">> \o h2

BuildHandler(c) ==
    LET h0 == <<"mux">>
        h1 == IF c.bearerToken # <<>> THEN <<"bearer">> \o h0 ELSE h0
        h2 == IF Len(c.acl) > 0 THEN <<"acl">> \o h1 ELSE h1
    IN  <<"accesslog">> \o h2

Handler == BuildHandler(cfg)

\* http.DefaultServeMux with the three patterns main registers
Mux(path) ==
    IF path = cfg.proxyPath THEN "doProxy"
    ELSE IF path = cfg.telemetryPath THEN "telemetry"
    ELSE "listModules"

ZeroCount == [l \in Labels |-> 0]

Metrics == [err |-> proxyErrorCount, to |-> proxyTimeoutCount, dur |-> proxyDuration]

Inc(counter, label) == [counter EXCEPT ![label] = @ + 1]

----------------------------------------------------------------------------
(* http.go: the reverse proxy director *)

\* A raw query is the sequence of its key=value pairs. url.Values is a
\* function from the keys present to their values in order.
QueryKeys == {"a", "module"}
QueryVals == {"x", "y"}
QueryPairs == QueryKeys \X QueryVals

\* the keys in the order sort.Strings gives them
SortedKeys == <<"a", "module">>

Get(v, k) == IF k \in DOMAIN v THEN v[k] ELSE <<>>

\* a slip: the value replaces what the key held
AddOverwrites(v, k, x) ==
    [kk \in DOMAIN v \cup {k} |-> IF kk = k THEN <<x>> ELSE v[kk]]

\* url.Values.Add, http.Header.Add (on the canonical key)
Add(v, k, x) ==
    [kk \in DOMAIN v \cup {k} |-> IF kk = k THEN Append(Get(v, k), x) ELSE v[kk]]

\* url.Values.Set, http.Header.Set
Set(v, k, xs) ==
    [kk \in DOMAIN v \cup {k} |-> IF kk = k THEN xs ELSE v[kk]]

RECURSIVE AddAll(_, _, _)
AddAll(v, k, xs) ==
    IF xs = <<>> THEN v ELSE AddAll(Add(v, k, Head(xs)), k, Tail(xs))

EmptyValues == [k \in {} |-> <<>>]

\* url.ParseQuery
RECURSIVE ParseQuery(_)
ParseQuery(raw) ==
    IF raw = <<>> THEN EmptyValues
    ELSE LET n == Len(raw)
         IN Add(ParseQuery(SubSeq(raw, 1, n - 1)), raw[n][1], raw[n][2])

\* url.Values.Encode: keys sorted, each key's values in order
RECURSIVE Encode(_, _)
Encode(v, i) ==
    IF i > Len(SortedKeys) THEN <<>>
    ELSE LET k == SortedKeys[i]
         IN [j \in 1..Len(Get(v, k)) |-> <<k, v[k][j]>>] \o Encode(v, i + 1)

\* for k, vs := range cvs { for _, v := range vs { qvs.Add(k, v) } },
\* the map's keys visited in the given order
RECURSIVE MergeDefaults(_, _, _)
MergeDefaults(qvs, cvs, order) ==
    IF order = <<>> THEN qvs
    ELSE MergeDefaults(AddAll(qvs, Head(order), cvs[Head(order)]), cvs, Tail(order))

\* a slip: the last value is dropped
StripLast(qvs) ==
    Set(qvs, "module", SubSeq(qvs["module"], 1, Len(qvs["module"]) - 1))

\* qvs["module"] = qvs["module"][1:]
StripModule(qvs) == Set(qvs, "module", Tail(qvs["module"]))

\* textproto.CanonicalMIMEHeaderKey on the header names of the model
CanonicalKey(k) == IF k = "x-a" THEN "X-A" ELSE k

Raw(x) == [kind |-> "raw", a |-> x, b |-> ""]
\* "Basic " + base64(username + ":" + password)
BasicCredentials(username, password) == [kind |-> "Basic", a |-> username, b |-> password]

\* for k, v := range cfg.HTTP.Headers { r.Header.Add(k, v) },
\* the map's keys visited in the given order
RECURSIVE AddHeaders(_, _, _)
AddHeaders(header, defaults, order) ==
    IF order = <<>> THEN header
    ELSE AddHeaders(Add(header, CanonicalKey(Head(order)), Raw(defaults[Head(order)])),
                    defaults, Tail(order))

\* a slip: the credentials are added beside what the header holds
AddBasicAuth(header, username, password) ==
    Add(header, "Authorization", BasicCredentials(username, password))

\* http.Request.SetBasicAuth
SetBasicAuth(header, username, password) ==
    Set(header, "Authorization", <<BasicCredentials(username, password)>>)

\* base.Query() of the parsed cfg.HTTP.Path
cvs(c) == ParseQuery(c.PathQuery)

\* the function getReverseProxyDirectorFunc returns, applied to a copy of r;
\* qorder and horder are the orders in which the two maps are ranged over
Director(c, r, qorder, horder) ==
    LET qvs == StripModule(MergeDefaults(ParseQuery(r.RawQuery), cvs(c), qorder))
        hdr == AddHeaders(r.Header, c.Headers, horder)
    IN [Scheme   |-> c.Scheme,
        Host     |-> <<c.Address, ":", c.Port>>,
        Path     |-> c.Path,
        RawQuery |-> Encode(qvs, 1),
        Header   |-> IF c.BasicAuthUsername # "" /\ c.BasicAuthPassword # ""
                     THEN SetBasicAuth(hdr, c.BasicAuthUsername, c.BasicAuthPassword)
                     ELSE hdr]

\* every order in which a map with these keys can be ranged over
Orders(keys) ==
    { o \in [1..Cardinality(keys) -> keys] : \A i, j \in DOMAIN o : i # j => o[i] # o[j] }

----------------------------------------------------------------------------
(* Director inputs *)

DefaultHeaders ==
    { [k \in {} |-> ""],
      [k \in {"X-A"} |-> "d1"],
      [k \in {"X-A", "X-B"} |-> IF k = "X-A" THEN "d1" ELSE "d2"],
      [k \in {"X-A", "x-a"} |-> IF k = "X-A" THEN "d1" ELSE "d2"],
      [k \in {"Authorization"} |-> "d1"] }

BasicAuths == { <<"", "">>, <<"u", "">>, <<"u", "p">> }

ModuleConfig(q, h, b) ==
    [Scheme |-> "http", Address |-> "backend", Port |-> "9100", Path |-> "/metrics",
     PathQuery |-> q, Headers |-> h,
     BasicAuthUsername |-> b[1], BasicAuthPassword |-> b[2]]

DirConfigs ==
    { ModuleConfig(q, [k \in {} |-> ""], <<"", "">>) :
        q \in SeqsUpTo(QueryPairs, MaxDefQuery) }
    \cup
    { ModuleConfig(<<>>, h, b) : h \in DefaultHeaders, b \in BasicAuths }

InboundHeaders ==
    { [k \in {} |-> <<>>],
      [k \in {"X-A"} |-> <<Raw("i1")>>],
      [k \in {"Authorization"} |-> <<BasicCredentials("in", "pw")>>],
      [k \in {"X-A", "Authorization"} |->
          IF k = "X-A" THEN <<Raw("i1"), Raw("d1")>> ELSE <<Raw("Bearer s")>>] }

\* doProxy hands a request to a module only when it has a "module" value
HasModule(q) == \E i \in 1..Len(q) : q[i][1] = "module"

DirRequests ==
    { [RawQuery |-> q, Header |-> [k \in {} |-> <<>>]] :
        q \in { qq \in SeqsUpTo(QueryPairs, MaxInQuery) : HasModule(qq) } }
    \cup
    { [RawQuery |-> << <<"module", "x">> >>, Header |-> h] : h \in InboundHeaders }

NoDirConfig == ModuleConfig(<<>>, [k \in {} |-> ""], <<"", "">>)

DirIdle == dcfg = NoDirConfig /\ din = <<>> /\ dout = <<>>

----------------------------------------------------------------------------
(* The listeners before anything fails *)

Listeners == {"http", "https"}

\* the listeners serve, nothing has failed
LsnIdle ==
    /\ srv = [l \in Listeners |-> "serving"]
    /\ inflight = [l \in Listeners |-> 0]
    /\ sd = [l \in Listeners |-> "waiting"]
    /\ ctxDone = FALSE
    /\ gerr = ""
    /\ exited = FALSE
    /\ exitCode = 0

----------------------------------------------------------------------------
(* TLS setup: flags, files and the configuration built from them *)

\* -web.tls.listen-address
TlsAddrs == {"", ":9998"}

\* -web.tls.certmatch: unset, a pattern that compiles, one that does not
CertMatches == {"", "^admin@", "("}

\* what ioutil.ReadFile and AppendCertsFromPEM make of the file -web.tls.ca names
CaFiles == {"missing", "garbage", "pem"}

\* the flags of one start of the program; keyPair tells whether
\* tls.LoadX509KeyPair can load -web.tls.cert and -web.tls.key
Flags == [tlsAddr : TlsAddrs, verify : BOOLEAN, certMatch : CertMatches,
          keyPair : BOOLEAN, caFile : CaFiles]

NoFlags == [tlsAddr |-> "", verify |-> FALSE, certMatch |-> "",
            keyPair |-> FALSE, caFile |-> "missing"]

\* a nil *tls.Config
NilConfig == [nil |-> TRUE, MinVersion |-> "", ClientAuth |-> "",
              ClientCAs |-> "", GetConfigForClient |-> ""]

\* nothing of the TLS part has run
TlsIdle ==
    /\ flags = NoFlags
    /\ tpc = "off"
    /\ tlsConfig = NilConfig
    /\ tlsErr = ""
    /\ handshakes = <<>>

----------------------------------------------------------------------------
(* Initial state of the pipeline *)

PipeInit ==
    /\ cfg \in Configs
    /\ req = NoRequest
    /\ pc = "idle"
    /\ depth = 0
    /\ status = 0
    /\ body = NoBody
    /\ trace = <<>>
    /\ curModule = ""
    /\ backendErr = "none"
    /\ proxyErrorCount = ZeroCount
    /\ proxyTimeoutCount = ZeroCount
    /\ proxyDuration = ZeroCount
    /\ accessLog = <<>>
    /\ pre = [err |-> ZeroCount, to |-> ZeroCount, dur |-> ZeroCount]
    /\ nreq = 0
    /\ DirIdle
    /\ LsnIdle
    /\ TlsIdle

\* the server accepts a request and hands it to the outermost handler
Accept ==
    /\ UNCHANGED <<dirVars, lsnVars, tlsVars>>
    /\ pc = "idle"
    /\ nreq < MaxRequests
    /\ req' \in Requests
    /\ pc' = "serve"
    /\ depth' = 1
    /\ status' = 0
    /\ body' = NoBody
    /\ trace' = <<>>
    /\ curModule' = ""
    /\ backendErr' = "none"
    /\ pre' = Metrics
    /\ UNCHANGED <<cfg, proxyErrorCount, proxyTimeoutCount, proxyDuration, accessLog, nreq>>

Running(h) == pc = "serve" /\ depth <= Len(Handler) /\ Handler[depth] = h

\* AccessLogMiddleware.ServeHTTP up to the call of the inner handler
AccessLogServeHTTP ==
    /\ UNCHANGED <<dirVars, lsnVars, tlsVars>>
    /\ Running("accesslog")
    /\ status' = StatusOK
    /\ trace' = Append(trace, "accesslog")
    /\ depth' = depth + 1
    /\ UNCHANGED <<cfg, req, pc, body, curModule, backendErr, proxyErrorCount,
                   proxyTimeoutCount, proxyDuration, accessLog, pre, nreq>>

\* the deferred function of AccessLogMiddleware.ServeHTTP
AccessLogDefer ==
    /\ UNCHANGED <<dirVars, lsnVars, tlsVars>>
    /\ pc = "unwind"
    /\ accessLog' = Append(accessLog,
                           [remoteHost |-> SplitHostPort(req.remoteAddr).host,
                            status |-> status])
    /\ pc' = "done"
    /\ UNCHANGED <<cfg, req, depth, status, body, trace, curModule, backendErr,
                   proxyErrorCount, proxyTimeoutCount, proxyDuration, pre, nreq>>

\* the server is done with the request: its per-request state is discarded
Release ==
    /\ UNCHANGED <<dirVars, lsnVars, tlsVars>>
    /\ pc = "done"
    /\ pc' = "idle"
    /\ req' = NoRequest
    /\ depth' = 0
    /\ status' = 0
    /\ body' = NoBody
    /\ trace' = <<>>
    /\ curModule' = ""
    /\ backendErr' = "none"
    /\ accessLog' = <<>>
    /\ pre' = Metrics
    /\ nreq' = nreq + 1
    /\ UNCHANGED <<cfg, proxyErrorCount, proxyTimeoutCount, proxyDuration>>

----------------------------------------------------------------------------
(* http.go: BearerAuthMiddleware *)

Deny(code, msg) == [pass |-> FALSE, status |-> code, body |-> Body(msg, <<>>)]
Pass == [pass |-> TRUE, status |-> 0, body |-> NoBody]

\* a slip: the header is split at every space and the first two fields are used
BearerAuthSplitAll(authHeader, token) ==
    IF authHeader = <<>>
    THEN Deny(StatusUnauthorized, "Authorization header is missing")
    ELSE LET ss == SplitAllSP(authHeader)
         IN IF ~(Len(ss) >= 2 /\ ss[1] = BearerWord)
            THEN Deny(StatusUnauthorized, "Authorization header not of Bearer type")
            ELSE IF ss[2] # token
            THEN Deny(StatusUnauthorized, "Invalid Bearer Token")
            ELSE Pass

\* the decision of BearerAuthMiddleware.ServeHTTP
BearerAuth(authHeader, token) ==
    IF authHeader = <<>>
    THEN Deny(StatusUnauthorized, "Authorization header is missing")
    ELSE LET ss == SplitN2(authHeader)
         IN IF ~(Len(ss) = 2 /\ ss[1] = BearerWord)
            THEN Deny(StatusUnauthorized, "Authorization header not of Bearer type")
            ELSE IF ss[2] # token
            THEN Deny(StatusUnauthorized, "Invalid Bearer Token")
            ELSE Pass

BearerAuthServeHTTP ==
    /\ UNCHANGED <<dirVars, lsnVars, tlsVars>>
    /\ Running("bearer")
    /\ LET d == BearerAuth(req.authorization, cfg.bearerToken)
       IN /\ trace' = Append(trace, "bearer")
          /\ IF d.pass
             THEN /\ depth' = depth + 1
                  /\ UNCHANGED <<pc, status, body>>
             ELSE /\ status' = d.status
                  /\ body' = d.body
                  /\ pc' = "unwind"
                  /\ UNCHANGED depth
    /\ UNCHANGED <<cfg, req, curModule, backendErr, proxyErrorCount,
                   proxyTimeoutCount, proxyDuration, accessLog, pre, nreq>>

----------------------------------------------------------------------------
(* http.go: IPAddressAuthMiddleware *)

\* a slip: only the first configured network is consulted
InACLFirstOnly(acl, i, addr) == Len(acl) >= 1 /\ Contains(acl[1], addr)

\* the loop over m.ACL, from network i on: TRUE when one contains addr
RECURSIVE InACL(_, _, _)
InACL(acl, i, addr) ==
    IF i > Len(acl) THEN FALSE
    ELSE IF Contains(acl[i], addr) THEN TRUE
    ELSE InACL(acl, i + 1, addr)

\* the decision of IPAddressAuthMiddleware.ServeHTTP
IPAddressAuth(remoteAddr, acl) ==
    LET hp == SplitHostPort(remoteAddr)
    IN IF hp.err
       THEN Deny(StatusInternalServerError, "Failed to determine client IP address")
       ELSE LET addr == ParseIP(hp.host)
            IN IF addr = <<>>
               THEN Deny(StatusInternalServerError, "Failed to determine client IP address")
               ELSE IF InACL(acl, 1, addr[1])
               THEN Pass
               ELSE Deny(StatusForbidden, "Forbidden")

IPAddressAuthServeHTTP ==
    /\ UNCHANGED <<dirVars, lsnVars, tlsVars>>
    /\ Running("acl")
    /\ LET d == IPAddressAuth(req.remoteAddr, cfg.acl)
       IN /\ trace' = Append(trace, "acl")
          /\ IF d.pass
             THEN /\ depth' = depth + 1
                  /\ UNCHANGED <<pc, status, body>>
             ELSE /\ status' = d.status
                  /\ body' = d.body
                  /\ pc' = "unwind"
                  /\ UNCHANGED depth
    /\ UNCHANGED <<cfg, req, curModule, backendErr, proxyErrorCount,
                   proxyTimeoutCount, proxyDuration, accessLog, pre, nreq>>

----------------------------------------------------------------------------
(* main.go: the route handlers *)

Routed(h) == Running("mux") /\ Mux(req.path) = h

\* json.Marshal and the template's range both go through the map's keys in
\* sorted order
ModuleOrder == <<"a", "e", "unknown">>

SortedNames(c) == SelectSeq(ModuleOrder, LAMBDA n : n \in DOMAIN GetModules(c))

\* the <li> the template writes for one module: the path and the module
\* parameter of the anchor's href, then the anchor's text
RECURSIVE Anchors(_)
Anchors(names) ==
    IF names = <<>> THEN <<>>
    ELSE <<"/proxy", Head(names), Head(names)>> \o Anchors(Tail(names))

\* what listModules writes: the Content-Type, and the keys of the JSON
\* object or the anchors of the HTML list
Listing(c, accept) ==
    IF accept = "application/json"
    THEN Body("application/json", SortedNames(c))
    ELSE Body("text/html; charset=utf-8", Anchors(SortedNames(c)))

\* config.listModules
listModules ==
    /\ UNCHANGED <<dirVars, lsnVars, tlsVars>>
    /\ Routed("listModules")
    /\ trace' = Append(trace, "listModules")
    /\ body' = Listing(cfg, req.accept)
    /\ pc' = "unwind"
    /\ UNCHANGED <<cfg, req, depth, status, curModule, backendErr, proxyErrorCount,
                   proxyTimeoutCount, proxyDuration, accessLog, pre, nreq>>

\* promhttp.Handler() on the telemetry path
Telemetry ==
    /\ UNCHANGED <<dirVars, lsnVars, tlsVars>>
    /\ Routed("telemetry")
    /\ trace' = Append(trace, "telemetry")
    /\ body' = Body("metrics", <<>>)
    /\ pc' = "unwind"
    /\ UNCHANGED <<cfg, req, depth, status, curModule, backendErr, proxyErrorCount,
                   proxyTimeoutCount, proxyDuration, accessLog, pre, nreq>>

\* config.doProxy, with moduleConfig.ServeHTTP up to the backend call
doProxy ==
    /\ UNCHANGED <<dirVars, lsnVars, tlsVars>>
    /\ Routed("doProxy")
    /\ trace' = Append(trace, "doProxy")
    /\ LET mod == req.module
       IN IF Len(mod) = 0
          THEN /\ status' = StatusBadRequest
               /\ body' = Body("require parameter module is missing", mod)
               /\ pc' = "unwind"
               /\ UNCHANGED <<curModule, proxyErrorCount, proxyDuration>>
          ELSE IF getModule(mod[1]) = <<>>
          THEN /\ proxyErrorCount' = Inc(proxyErrorCount, "unknown")
               /\ status' = StatusNotFound
               /\ body' = Body("unknown module", mod)
               /\ pc' = "unwind"
               /\ UNCHANGED <<curModule, proxyDuration>>
          ELSE LET m == getModule(mod[1])[1]
               IN /\ curModule' = m.name
                  /\ IF m.Method \in {"exec", "http"}
                     THEN /\ pc' = "backend"
                          /\ UNCHANGED <<status, body, proxyErrorCount, proxyDuration>>
                     ELSE /\ proxyErrorCount' = Inc(proxyErrorCount, m.name)
                          /\ status' = StatusNotFound
                          /\ body' = Body("unknown module method", <<m.Method>>)
                          /\ proxyDuration' = Inc(proxyDuration, m.name)
                          /\ pc' = "unwind"
    /\ UNCHANGED <<cfg, req, depth, backendErr, proxyTimeoutCount, accessLog, pre, nreq>>

\* what the backend call can end in: a deadline only when one was set
BackendOutcomes(m) ==
    IF m.Timeout # 0 THEN {"ok", "deadline", "error"} ELSE {"ok", "error"}

\* moduleConfig.getReverseProxyErrorHandlerFunc
ErrorHandler(err) ==
    IF err = "deadline"
    THEN [status |-> StatusGatewayTimeout, body |-> Body("Gateway Timeout", <<>>)]
    ELSE [status |-> StatusBadGateway, body |-> Body("Bad Gateway", <<>>)]

\* httpConfig.ServeHTTP: the reverse proxy forwards the request; a failure of
\* the round trip goes to the error handler, which writes the status, logs
\* and touches no metric. Then moduleConfig.ServeHTTP's deferred duration
\* observation.
httpServeHTTP ==
    /\ UNCHANGED <<dirVars, lsnVars, tlsVars>>
    /\ pc = "backend"
    /\ Modules[curModule].Method = "http"
    /\ \E o \in BackendOutcomes(Modules[curModule]) :
        /\ backendErr' = o
        /\ IF o = "ok"
           THEN /\ status' = StatusOK
                /\ body' = Body("backend response", <<>>)
           ELSE /\ status' = ErrorHandler(o).status
                /\ body' = ErrorHandler(o).body
    /\ proxyDuration' = Inc(proxyDuration, curModule)
    /\ pc' = "unwind"
    /\ UNCHANGED <<cfg, req, depth, trace, curModule, proxyErrorCount,
                   proxyTimeoutCount, accessLog, pre, nreq>>

\* execConfig.ServeHTTP: the command's output is the body; a deadline is a
\* gateway timeout and a timeout count, any other failure a bad gateway and an
\* error count. Then moduleConfig.ServeHTTP's deferred duration observation.
execServeHTTP ==
    /\ UNCHANGED <<dirVars, lsnVars, tlsVars>>
    /\ pc = "backend"
    /\ Modules[curModule].Method = "exec"
    /\ \E o \in BackendOutcomes(Modules[curModule]) :
        /\ backendErr' = o
        /\ CASE o = "ok" ->
                  /\ status' = StatusOK
                  /\ body' = Body("command output", <<>>)
                  /\ UNCHANGED <<proxyErrorCount, proxyTimeoutCount>>
             [] o = "deadline" ->
                  /\ status' = StatusGatewayTimeout
                  /\ body' = Body("Gateway Timeout", <<>>)
                  /\ proxyTimeoutCount' = Inc(proxyTimeoutCount, curModule)
                  /\ UNCHANGED proxyErrorCount
             [] OTHER ->
                  /\ status' = StatusBadGateway
                  /\ body' = Body("Bad Gateway", <<>>)
                  /\ proxyErrorCount' = Inc(proxyErrorCount, curModule)
                  /\ UNCHANGED proxyTimeoutCount
    /\ proxyDuration' = Inc(proxyDuration, curModule)
    /\ pc' = "unwind"
    /\ UNCHANGED <<cfg, req, depth, trace, curModule, accessLog, pre, nreq>>

----------------------------------------------------------------------------
(* The request pipeline *)

Init == PipeInit

Next ==
    \/ Accept
    \/ AccessLogServeHTTP
    \/ IPAddressAuthServeHTTP
    \/ BearerAuthServeHTTP
    \/ listModules
    \/ Telemetry
    \/ doProxy
    \/ httpServeHTTP
    \/ execServeHTTP
    \/ AccessLogDefer
    \/ Release

Spec == Init /\ [][Next]_vars

----------------------------------------------------------------------------
(* The bearer check alone, over every header *)

BearerInit ==
    /\ cfg \in [acl : {<<>>}, bearerToken : BearerSecrets,
                 proxyPath : {ProxyPath}, telemetryPath : {TelemetryPath},
                 modules : {DOMAIN Modules}]
    /\ req = NoRequest
    /\ pc = "idle"
    /\ depth = 0
    /\ status = 0
    /\ body = NoBody
    /\ trace = <<>>
    /\ curModule = ""
    /\ backendErr = "none"
    /\ proxyErrorCount = ZeroCount
    /\ proxyTimeoutCount = ZeroCount
    /\ proxyDuration = ZeroCount
    /\ accessLog = <<>>
    /\ pre = [err |-> ZeroCount, to |-> ZeroCount, dur |-> ZeroCount]
    /\ nreq = 0
    /\ DirIdle
    /\ LsnIdle
    /\ TlsIdle

AcceptAuth ==
    /\ UNCHANGED <<dirVars, lsnVars, tlsVars>>
    /\ pc = "idle"
    /\ nreq < MaxRequests
    /\ req' \in AuthRequests
    /\ pc' = "serve"
    /\ depth' = 1
    /\ status' = 0
    /\ body' = NoBody
    /\ trace' = <<>>
    /\ curModule' = ""
    /\ backendErr' = "none"
    /\ pre' = Metrics
    /\ UNCHANGED <<cfg, proxyErrorCount, proxyTimeoutCount, proxyDuration, accessLog, nreq>>

NextBearer ==
    \/ AcceptAuth
    \/ AccessLogServeHTTP
    \/ BearerAuthServeHTTP
    \/ listModules
    \/ AccessLogDefer
    \/ Release

SpecBearer == BearerInit /\ [][NextBearer]_vars

----------------------------------------------------------------------------
(* The listing alone, over proxy paths, registries and Accept headers *)

\* gateways without ACL and bearer secret, started with some -web.proxy-path
\* that setup accepts, and some registry
ListingConfigs ==
    { [acl |-> <<>>, bearerToken |-> <<>>, proxyPath |-> setup(pp, TelemetryPath).proxyPath,
       telemetryPath |-> setup(pp, TelemetryPath).telemetryPath, modules |-> ms] :
        pp \in { f \in ProxyPathFlags : setup(f, TelemetryPath).err = "" },
        ms \in SUBSET DOMAIN Modules }

ListingRequests ==
    { [remoteAddr |-> [wellFormed |-> TRUE, isIP |-> TRUE, bits |-> <<1, 0, 1>>],
       authorization |-> <<>>, path |-> p, module |-> <<>>, accept |-> ac] :
        p \in {"/", "/other", ProxyPath}, ac \in Accepts }

ListingInit ==
    /\ cfg \in ListingConfigs
    /\ req = NoRequest
    /\ pc = "idle"
    /\ depth = 0
    /\ status = 0
    /\ body = NoBody
    /\ trace = <<>>
    /\ curModule = ""
    /\ backendErr = "none"
    /\ proxyErrorCount = ZeroCount
    /\ proxyTimeoutCount = ZeroCount
    /\ proxyDuration = ZeroCount
    /\ accessLog = <<>>
    /\ pre = [err |-> ZeroCount, to |-> ZeroCount, dur |-> ZeroCount]
    /\ nreq = 0
    /\ DirIdle
    /\ LsnIdle
    /\ TlsIdle

\* the server accepts a request that the mux hands to listModules
AcceptListing ==
    /\ UNCHANGED <<dirVars, lsnVars, tlsVars>>
    /\ pc = "idle"
    /\ nreq < MaxRequests
    /\ req' \in { r \in ListingRequests : Mux(r.path) = "listModules" }
    /\ pc' = "serve"
    /\ depth' = 1
    /\ status' = 0
    /\ body' = NoBody
    /\ trace' = <<>>
    /\ curModule' = ""
    /\ backendErr' = "none"
    /\ pre' = Metrics
    /\ UNCHANGED <<cfg, proxyErrorCount, proxyTimeoutCount, proxyDuration, accessLog, nreq>>

NextListing ==
    \/ AcceptListing
    \/ AccessLogServeHTTP
    \/ listModules
    \/ AccessLogDefer
    \/ Release

SpecListing == ListingInit /\ [][NextListing]_vars

----------------------------------------------------------------------------
(* The director alone: a module, an inbound request, two invocations *)

PipeIdle ==
    /\ cfg = [acl |-> <<>>, bearerToken |-> <<>>, proxyPath |-> ProxyPath,
              telemetryPath |-> TelemetryPath, modules |-> DOMAIN Modules]
    /\ req = NoRequest
    /\ pc = "idle"
    /\ depth = 0
    /\ status = 0
    /\ body = NoBody
    /\ trace = <<>>
    /\ curModule = ""
    /\ backendErr = "none"
    /\ proxyErrorCount = ZeroCount
    /\ proxyTimeoutCount = ZeroCount
    /\ proxyDuration = ZeroCount
    /\ accessLog = <<>>
    /\ pre = [err |-> ZeroCount, to |-> ZeroCount, dur |-> ZeroCount]
    /\ nreq = 0

DirInit ==
    /\ PipeIdle
    /\ LsnIdle
    /\ TlsIdle
    /\ dcfg \in DirConfigs
    /\ din = <<>>
    /\ dout = <<>>

\* a request for the module arrives
DirReceive ==
    /\ din = <<>>
    /\ \E r \in DirRequests : din' = <<r>>
    /\ dout' = <<>>
    /\ UNCHANGED <<dcfg, pipeVars, lsnVars, tlsVars>>

\* the director is applied to a copy of the request
DirInvoke ==
    /\ din # <<>>
    /\ Len(dout) < 2
    /\ \E qorder \in Orders(DOMAIN cvs(dcfg)), horder \in Orders(DOMAIN dcfg.Headers) :
          dout' = Append(dout, Director(dcfg, din[1], qorder, horder))
    /\ UNCHANGED <<dcfg, din, pipeVars, lsnVars, tlsVars>>

\* the request is over
DirRelease ==
    /\ Len(dout) = 2
    /\ din' = <<>>
    /\ dout' = <<>>
    /\ UNCHANGED <<dcfg, pipeVars, lsnVars, tlsVars>>

NextDirector == DirReceive \/ DirInvoke \/ DirRelease

SpecDirector == DirInit /\ [][NextDirector]_vars

----------------------------------------------------------------------------
(* main.go: runListener and the errgroup in main *)

\* runListener(l) has returned to the errgroup
Returned(l) == srv[l] \in {"failed", "closed"}

\* errgroup.Group.Go's wrapper: the first error is kept and cancels the context
FirstError(e) == IF gerr = "" THEN e ELSE gerr

\* srvr.Serve accepts a connection and starts serving its request
LsnAccept(l) ==
    /\ ~exited
    /\ srv[l] = "serving"
    /\ inflight[l] < MaxInflight
    /\ inflight' = [inflight EXCEPT ![l] = @ + 1]
    /\ UNCHANGED <<srv, sd, ctxDone, gerr, exited, exitCode, pipeVars, dirVars, tlsVars>>

\* a handler finishes its request
LsnFinish(l) ==
    /\ ~exited
    /\ inflight[l] > 0
    /\ inflight' = [inflight EXCEPT ![l] = @ - 1]
    /\ UNCHANGED <<srv, sd, ctxDone, gerr, exited, exitCode, pipeVars, dirVars, tlsVars>>

\* srvr.Serve fails for good: runListener returns the error to the errgroup,
\* which cancels the shared context
ListenerFail(l) ==
    /\ ~exited
    /\ srv[l] = "serving"
    /\ srv' = [srv EXCEPT ![l] = "failed"]
    /\ gerr' = FirstError(l)
    /\ ctxDone' = TRUE
    /\ UNCHANGED <<inflight, sd, exited, exitCode, pipeVars, dirVars, tlsVars>>

\* the goroutine of runListener: <-ctx.Done(), then srvr.Shutdown begins:
\* the listener is closed, so Serve stops accepting and is about to return
ShutdownBegin(l) ==
    /\ ~exited
    /\ ctxDone
    /\ sd[l] = "waiting"
    /\ sd' = [sd EXCEPT ![l] = "shutting"]
    /\ srv' = [srv EXCEPT ![l] = IF @ = "serving" THEN "closing" ELSE @]
    /\ UNCHANGED <<inflight, ctxDone, gerr, exited, exitCode, pipeVars, dirVars, tlsVars>>

\* srvr.Serve returns http.ErrServerClosed as soon as Shutdown was called;
\* runListener wraps it and returns it to the errgroup
ServeReturn(l) ==
    /\ ~exited
    /\ srv[l] = "closing"
    /\ srv' = [srv EXCEPT ![l] = "closed"]
    /\ gerr' = FirstError(l)
    /\ ctxDone' = TRUE
    /\ UNCHANGED <<inflight, sd, exited, exitCode, pipeVars, dirVars, tlsVars>>

\* srvr.Shutdown returns once no request of the server is being handled
ShutdownEnd(l) ==
    /\ ~exited
    /\ sd[l] = "shutting"
    /\ inflight[l] = 0
    /\ sd' = [sd EXCEPT ![l] = "done"]
    /\ UNCHANGED <<srv, inflight, ctxDone, gerr, exited, exitCode, pipeVars, dirVars, tlsVars>>

\* main: eg.Wait() returns when every runListener has returned; the deferred
\* function exits with status 1 on an error
MainExit ==
    /\ ~exited
    /\ \A l \in Listeners : Returned(l)
    /\ exited' = TRUE
    /\ exitCode' = IF gerr # "" THEN 1 ELSE 0
    /\ UNCHANGED <<srv, inflight, sd, ctxDone, gerr, pipeVars, dirVars, tlsVars>>

LsnInit == PipeIdle /\ DirIdle /\ LsnIdle /\ TlsIdle

NextListeners ==
    \/ \E l \in Listeners : LsnAccept(l)
    \/ \E l \in Listeners : LsnFinish(l)
    \/ \E l \in Listeners : ListenerFail(l)
    \/ \E l \in Listeners : ShutdownBegin(l)
    \/ \E l \in Listeners : ServeReturn(l)
    \/ \E l \in Listeners : ShutdownEnd(l)
    \/ MainExit

\* every goroutine that can run does run in the end
LsnFairness ==
    /\ \A l \in Listeners :
        /\ WF_vars(LsnFinish(l))
        /\ WF_vars(ShutdownBegin(l))
        /\ WF_vars(ServeReturn(l))
        /\ WF_vars(ShutdownEnd(l))
    /\ WF_vars(MainExit)

SpecListeners == LsnInit /\ [][NextListeners]_vars /\ LsnFairness

----------------------------------------------------------------------------
(* TLS manager: setupTLS and the handshakes its configuration decides *)

\* regexp.Compile on the -web.tls.certmatch pattern
Compiles(p) == p # "("

\* (*regexp.Regexp).MatchString
MatchString(rx, name) == rx = "^admin@" /\ name = "admin@example.com"

\* leaf certificates a client may present
Leaves ==
    { [CommonName |-> "admin@example.com", DNSNames |-> <<>>, EmailAddresses |-> <<>>],
      [CommonName |-> "host.example.com", DNSNames |-> <<"host.example.com">>,
       EmailAddresses |-> <<"bob@example.com", "admin@example.com">>],
      [CommonName |-> "host.example.com", DNSNames |-> <<"host.example.com">>,
       EmailAddresses |-> <<"bob@example.com">>] }

\* a client: without a certificate, with one no CA of the pool signed, or
\* with one that verifies against the pool
Clients == [cert : {"none", "untrusted", "trusted"}, leaf : Leaves]

\* the closure getClientValidator returns, applied to the verified chains
\* (each chain is given by its leaf, c[0])
getClientValidator(r, verifiedChains) ==
    IF \E i \in 1..Len(verifiedChains) :
          LET leaf == verifiedChains[i] IN
            \/ MatchString(r, leaf.CommonName)
            \/ \E j \in 1..Len(leaf.DNSNames) : MatchString(r, leaf.DNSNames[j])
            \/ \E j \in 1..Len(leaf.EmailAddresses) : MatchString(r, leaf.EmailAddresses[j])
    THEN ""
    ELSE "no client certificate subject or email address matched"

\* the configuration setupTLS starts from: one certificate, TLS 1.2, no
\* client authentication yet
BaseConfig == [nil |-> FALSE, MinVersion |-> "VersionTLS12", ClientAuth |-> "NoClientCert",
               ClientCAs |-> "", GetConfigForClient |-> ""]

TLSResult(c, e) == [config |-> c, err |-> e]

\* setupTLS with the else branch that rejects a pattern without verification left out
setupTLSIgnoresMatch(f) ==
    IF f.tlsAddr = "" THEN TLSResult(NilConfig, "")
    ELSE IF ~f.keyPair THEN TLSResult(NilConfig, "could not parse key/cert")
    ELSE IF ~f.verify
    THEN IF f.caFile = "missing" THEN TLSResult(NilConfig, "could not open ca file")
         ELSE IF f.caFile # "pem" THEN TLSResult(NilConfig, "failed loading ca certs")
         ELSE LET verifying == [BaseConfig EXCEPT !.ClientAuth = "RequireAndVerifyClientCert",
                                                  !.ClientCAs = "pool"]
              IN  IF f.certMatch # ""
                  THEN IF ~Compiles(f.certMatch)
                       THEN TLSResult(NilConfig, "tls.web.certmatch is not a valid regexp")
                       ELSE TLSResult([verifying EXCEPT !.GetConfigForClient = f.certMatch], "")
                  ELSE TLSResult(verifying, "")
    ELSE TLSResult(BaseConfig, "")

\* setupTLS
setupTLS(f) ==
    IF f.tlsAddr = "" THEN TLSResult(NilConfig, "")
    ELSE IF ~f.keyPair THEN TLSResult(NilConfig, "could not parse key/cert")
    ELSE IF ~f.verify
    THEN IF f.caFile = "missing" THEN TLSResult(NilConfig, "could not open ca file")
         ELSE IF f.caFile # "pem" THEN TLSResult(NilConfig, "failed loading ca certs")
         ELSE LET verifying == [BaseConfig EXCEPT !.ClientAuth = "RequireAndVerifyClientCert",
                                                  !.ClientCAs = "pool"]
              IN  IF f.certMatch # ""
                  THEN IF ~Compiles(f.certMatch)
                       THEN TLSResult(NilConfig, "tls.web.certmatch is not a valid regexp")
                       ELSE TLSResult([verifying EXCEPT !.GetConfigForClient = f.certMatch], "")
                  ELSE TLSResult(verifying, "")
    ELSE IF f.certMatch # ""
    THEN TLSResult(NilConfig, "tls.web.verify must be set to use certificate matching")
    ELSE TLSResult(BaseConfig, "")

\* a handshake on tls.NewListener(tlsLsnr, tlsConfig): the error the server
\* ends it with, "" if it completes.  GetConfigForClient, when installed,
\* serves a clone of the configuration whose VerifyPeerCertificate is the
\* validator.
ServerHandshake(conf, c) ==
    IF conf.ClientAuth # "RequireAndVerifyClientCert" THEN ""
    ELSE IF c.cert = "none" THEN "tls: client didn't provide a certificate"
    ELSE IF c.cert = "untrusted" THEN "tls: failed to verify client certificate"
    ELSE IF conf.GetConfigForClient # ""
    THEN getClientValidator(conf.GetConfigForClient, <<c.leaf>>)
    ELSE ""

\* the program is started with some flags and files
TlsInit ==
    /\ PipeIdle
    /\ DirIdle
    /\ LsnIdle
    /\ flags \in Flags
    /\ tpc = "flags"
    /\ tlsConfig = NilConfig
    /\ tlsErr = ""
    /\ handshakes = <<>>

\* main calls setupTLS; an error ends the program before it listens
SetupTLS ==
    /\ tpc = "flags"
    /\ LET r == setupTLS(flags) IN
         /\ tlsConfig' = r.config
         /\ tlsErr' = r.err
         /\ tpc' = IF r.err # "" THEN "fatal" ELSE "ready"
    /\ UNCHANGED <<flags, handshakes, pipeVars, dirVars, lsnVars>>

\* a client connects to the TLS listener
Handshake ==
    /\ tpc = "ready"
    /\ flags.tlsAddr # ""
    /\ Len(handshakes) < MaxHandshakes
    /\ \E c \in Clients :
         handshakes' = Append(handshakes, [client |-> c, err |-> ServerHandshake(tlsConfig, c)])
    /\ UNCHANGED <<flags, tpc, tlsConfig, tlsErr, pipeVars, dirVars, lsnVars>>

NextTLS ==
    \/ SetupTLS
    \/ Handshake

SpecTLS == TlsInit /\ [][NextTLS]_vars

----------------------------------------------------------------------------
(* Properties of the listener orchestration *)

\* C5 as stated: once a listener has failed, the process exits only with a
\* non-zero status and only when no request accepted by the surviving
\* listener is still being handled.
C5_GracefulExit ==
    exited =>
        /\ exitCode # 0
        /\ \A l \in Listeners : srv[l] = "closed" => inflight[l] = 0

\* the part of C5 the code keeps: after a listener's failure the process
\* does exit, with a non-zero status
C5_EventuallyExits ==
    (\E l \in Listeners : srv[l] = "failed") ~> (exited /\ exitCode = 1)

----------------------------------------------------------------------------
(* Properties of the director *)

InValues(k) == Get(ParseQuery(din[1].RawQuery), k)
DefValues(k) == Get(cvs(dcfg), k)
\* the values of a key as the backend parses them from the outbound query
OutValues(o, k) == Get(ParseQuery(o.RawQuery), k)

\* C7 as stated: the outbound query carries exactly the inbound "module"
\* values after the first, in their order.
C7_OnlyInboundTail ==
    \A i \in 1..Len(dout) : OutValues(dout[i], "module") = Tail(InValues("module"))

\* C7 amended: the outbound "module" values are the inbound "module" values
\* after the first, in their order, followed by the "module" values of the
\* module's default query in their order; without such defaults they are
\* exactly the inbound values 2..k.
C7_ModuleStripped ==
    \A i \in 1..Len(dout) :
        OutValues(dout[i], "module") = Tail(InValues("module")) \o DefValues("module")

\* C7 witness: inbound module=[x,y] and a default query with module=y gave
\* outbound module=[y,y]
C7_Witness ==
    /\ Len(dout) = 2
    /\ InValues("module") = <<"x", "y">>
    /\ DefValues("module") = <<"y">>
    /\ OutValues(dout[1], "module") = <<"y", "y">>

\* C8: for every key but "module" the outbound values are the inbound values
\* of the key followed by the module's default values of the key: nothing is
\* overwritten and nothing deduplicated.
C8_AdditiveMerge ==
    \A i \in 1..Len(dout) : \A k \in QueryKeys \ {"module"} :
        OutValues(dout[i], k) = InValues(k) \o DefValues(k)

\* C8 witness: inbound a=x with the default a=x gave a=x twice
C8_Witness ==
    /\ Len(dout) >= 1
    /\ InValues("a") = <<"x">>
    /\ DefValues("a") = <<"x">>
    /\ OutValues(dout[1], "a") = <<"x", "x">>

HeaderKeys == {"X-A", "X-B", "Authorization"}

BasicAuthConfigured == dcfg.BasicAuthUsername # "" /\ dcfg.BasicAuthPassword # ""

\* the module's default values for a canonical header name
DefaultsFor(K) == { k \in DOMAIN dcfg.Headers : CanonicalKey(k) = K }

Count(seq, x) == Cardinality({ j \in 1..Len(seq) : seq[j] = x })

\* C9: with basic-auth credentials configured the outbound Authorization
\* header is the module's credentials and nothing else; every other header
\* (and Authorization too when no credentials are configured) keeps its
\* inbound values in place and gains each of the module's default values for
\* that name once, after them.
C9_BasicAuthAndHeaders ==
    \A i \in 1..Len(dout) :
        LET inH == din[1].Header
            outH == dout[i].Header
        IN \A K \in HeaderKeys :
            IF K = "Authorization" /\ BasicAuthConfigured
            THEN Get(outH, K) = <<BasicCredentials(dcfg.BasicAuthUsername,
                                                   dcfg.BasicAuthPassword)>>
            ELSE LET iv == Get(inH, K)
                     ov == Get(outH, K)
                     added == SubSeq(ov, Len(iv) + 1, Len(ov))
                 IN /\ Len(ov) = Len(iv) + Cardinality(DefaultsFor(K))
                    /\ SubSeq(ov, 1, Len(iv)) = iv
                    /\ \A k \in DefaultsFor(K) :
                          Count(added, Raw(dcfg.Headers[k])) =
                              Cardinality({ kk \in DefaultsFor(K) :
                                              dcfg.Headers[kk] = dcfg.Headers[k] })

\* C9 witness: inbound basic-auth credentials were replaced by the module's
C9_Witness ==
    /\ Len(dout) >= 1
    /\ BasicAuthConfigured
    /\ Get(din[1].Header, "Authorization") = <<BasicCredentials("in", "pw")>>
    /\ dout[1].Header["Authorization"] = <<BasicCredentials("u", "p")>>

\* C10 as stated: two invocations of the director on identical copies of a
\* request give identical outbound requests, whatever the order in which the
\* module's default query parameters and default headers are ranged over.
C10_Deterministic ==
    Len(dout) = 2 => dout[1] = dout[2]

----------------------------------------------------------------------------
(* Properties of the request pipeline *)

Responded == pc \in {"unwind", "done"}

AclConfigured == Len(cfg.acl) > 0
BearerConfigured == cfg.bearerToken # <<>>

AddrParsable == req.remoteAddr.wellFormed /\ req.remoteAddr.isIP

AddrAllowed ==
    /\ AddrParsable
    /\ \E i \in 1..Len(cfg.acl) : Contains(cfg.acl[i], req.remoteAddr.bits)

TokenMatches == req.authorization = BearerWord \o <<SP>> \o cfg.bearerToken

RouteHandlers == {"doProxy", "listModules", "telemetry"}

Ran(h) == \E i \in 1..Len(trace) : trace[i] = h
TimesRan(h) == Cardinality({i \in 1..Len(trace) : trace[i] = h})

\* C1: the handlers of a request run in the order access log, IP ACL (if
\* configured), bearer auth (if configured), route handler: the bearer check
\* runs only after the ACL admitted the address, a route handler only after
\* every configured check passed; an address outside the ACL is answered 403
\* whatever the Authorization header, and every answered request gets exactly
\* one access-log record, carrying the status sent, after the inner handler.
C1_MiddlewareOrder ==
    /\ \A i \in 1..Len(trace) :
        /\ (trace[i] = "accesslog") = (i = 1)
        /\ trace[i] = "acl" => AclConfigured /\ i = 2
        /\ trace[i] = "bearer" =>
              /\ BearerConfigured
              /\ IF AclConfigured THEN i = 3 /\ trace[2] = "acl" /\ AddrAllowed
                                  ELSE i = 2
        /\ trace[i] \in RouteHandlers =>
              /\ i = Len(trace)
              /\ trace[i] = Mux(req.path)
              /\ AclConfigured => Ran("acl") /\ AddrAllowed
              /\ BearerConfigured => trace[i - 1] = "bearer" /\ TokenMatches
    /\ (Responded /\ AclConfigured /\ AddrParsable /\ ~AddrAllowed) =>
          status = StatusForbidden
    /\ pc = "done" => Len(accessLog) = 1 /\ accessLog[1].status = status
    /\ pc # "done" => accessLog = <<>>

\* C1 witness: a request from outside the ACL that carries the right bearer
\* secret was answered 403 and logged
C1_Witness ==
    /\ pc = "done"
    /\ AclConfigured /\ BearerConfigured
    /\ AddrParsable /\ ~AddrAllowed
    /\ TokenMatches
    /\ status = StatusForbidden
    /\ accessLog = <<[remoteHost |-> [isIP |-> TRUE, bits |-> req.remoteAddr.bits],
                      status |-> StatusForbidden]>>

HasPrefix(s, prefix) ==
    Len(s) >= Len(prefix) /\ SubSeq(s, 1, Len(prefix)) = prefix

BearerPassed == Ran("bearer") /\ trace[Len(trace)] # "bearer"

\* C2 as stated: the inner handler is reached exactly when the header is two
\* space-separated fields, "Bearer" and the secret; otherwise 401 with the body
\* for a missing header, a header not of that form, or a wrong secret.
C2_TwoTokens ==
    (Responded /\ Ran("bearer")) =>
        LET h == req.authorization
            fields == SplitAllSP(h)
        IN /\ BearerPassed = /\ Len(fields) = 2
                              /\ fields[1] = BearerWord
                              /\ fields[2] = cfg.bearerToken
           /\ ~BearerPassed =>
                /\ status = StatusUnauthorized
                /\ body.msg = IF h = <<>> THEN "Authorization header is missing"
                              ELSE IF ~HasPrefix(h, BearerWord \o <<SP>>)
                              THEN "Authorization header not of Bearer type"
                              ELSE "Invalid Bearer Token"

\* C2 amended: the inner handler is reached exactly when the header is
\* "Bearer", one space, and then the secret byte for byte (the header is cut
\* at its first space only); otherwise 401, with "Authorization header is
\* missing" for an empty header, "Authorization header not of Bearer type"
\* when the header does not start with "Bearer ", and "Invalid Bearer Token"
\* when it does and the rest differs from the secret.
C2_BearerAuth ==
    (Responded /\ Ran("bearer")) =>
        LET h == req.authorization
        IN /\ BearerPassed = TokenMatches
           /\ ~BearerPassed =>
                /\ status = StatusUnauthorized
                /\ body = Body(IF h = <<>> THEN "Authorization header is missing"
                               ELSE IF ~HasPrefix(h, BearerWord \o <<SP>>)
                               THEN "Authorization header not of Bearer type"
                               ELSE "Invalid Bearer Token", <<>>)

\* C2 witness: a secret holding a space is accepted, in a header of three
\* space-separated fields
C2_Witness ==
    /\ pc = "done"
    /\ BearerPassed
    /\ Len(SplitAllSP(req.authorization)) = 3
    /\ status = StatusOK

\* C3: the IP ACL answers 500 with the fixed body, without calling the inner
\* handler, when the remote address yields no IP address; else it calls the
\* inner handler, once, exactly when some configured network contains the
\* address; else it answers 403 "Forbidden", calls nothing and leaves every
\* metric as it was.
C3_IPAddressAuth ==
    (Responded /\ Ran("acl")) =>
        LET inner == IF BearerConfigured THEN "bearer" ELSE Mux(req.path)
        IN IF ~AddrParsable
           THEN /\ status = StatusInternalServerError
                /\ body = Body("Failed to determine client IP address", <<>>)
                /\ trace = <<"accesslog", "acl">>
           ELSE IF AddrAllowed
           THEN TimesRan(inner) = 1 /\ TimesRan("acl") = 1
           ELSE /\ status = StatusForbidden
                /\ body = Body("Forbidden", <<>>)
                /\ trace = <<"accesslog", "acl">>
                /\ Metrics = pre

\* C3 witness: an address that only the second configured network contains
\* reached the dispatcher
C3_Witness ==
    /\ pc = "done"
    /\ Len(cfg.acl) = 2
    /\ AddrParsable
    /\ ~Contains(cfg.acl[1], req.remoteAddr.bits)
    /\ Contains(cfg.acl[2], req.remoteAddr.bits)
    /\ Ran("doProxy")

\* C4 as stated: a failed backend call is answered 504 with the module's
\* timeout counter one higher when the deadline was exceeded, and 502 with
\* the module's error counter one higher for any other failure.
C4_FailureClassification ==
    (Responded /\ backendErr \in {"deadline", "error"}) =>
        IF backendErr = "deadline"
        THEN /\ status = StatusGatewayTimeout
             /\ proxyTimeoutCount[curModule] = pre.to[curModule] + 1
        ELSE /\ status = StatusBadGateway
             /\ proxyErrorCount[curModule] = pre.err[curModule] + 1

\* C6 as stated: a proxy request whose first "module" value names no
\* registered module is answered 404 naming the value, counts one error under
\* "unknown", runs no module and touches no other metric; one whose first
\* value names a registered module is delegated to it and leaves the
\* "unknown" error counter as it was.
C6_UnknownModule ==
    (Responded /\ Ran("doProxy") /\ Len(req.module) >= 1) =>
        IF req.module[1] \notin DOMAIN Modules
        THEN /\ status = StatusNotFound
             /\ body = Body("unknown module", req.module)
             /\ proxyErrorCount = Inc(pre.err, "unknown")
             /\ proxyTimeoutCount = pre.to
             /\ proxyDuration = pre.dur
             /\ curModule = ""
             /\ backendErr = "none"
        ELSE /\ curModule = req.module[1]
             /\ proxyErrorCount["unknown"] = pre.err["unknown"]

----------------------------------------------------------------------------
(* Properties of the TLS setup *)

\* setupTLS has returned
SetupDone == tpc \in {"ready", "fatal"}

\* the explicit setting that turns client verification off: setupTLS
\* verifies clients in the branch it takes when -web.tls.verify is not set
VerificationDisabled == flags.verify

\* the configuration demands a client certificate that verifies against the
\* loaded CA bundle
VerificationRequired ==
    /\ ~tlsConfig.nil
    /\ tlsConfig.ClientAuth = "RequireAndVerifyClientCert"
    /\ tlsConfig.ClientCAs = "pool"

\* the per-handshake subject/SAN matcher is installed
MatcherInstalled == ~tlsConfig.nil /\ tlsConfig.GetConfigForClient # ""

\* setup is fatal: an error and no configuration
SetupFailed == tlsErr # "" /\ tlsConfig = NilConfig

\* the files and the pattern setupTLS has to load with these flags do load
MaterialLoads ==
    /\ flags.keyPair
    /\ ~VerificationDisabled => (flags.caFile = "pem" /\ Compiles(flags.certMatch))

TLS_MatcherDecides ==
    \A i \in 1..Len(handshakes) :
        MatcherInstalled =>
            (handshakes[i].err = "" <=>
                /\ handshakes[i].client.cert = "trusted"
                /\ LET leaf == handshakes[i].client.leaf IN
                     \/ leaf.CommonName = "admin@example.com"
                     \/ \E j \in 1..Len(leaf.DNSNames) : leaf.DNSNames[j] = "admin@example.com"
                     \/ \E j \in 1..Len(leaf.EmailAddresses) :
                            leaf.EmailAddresses[j] = "admin@example.com")

----------------------------------------------------------------------------
(* Properties of the listing *)

\* listModules has answered the request
Listed == pc \in {"unwind", "done"} /\ Ran("listModules")

\* the anchors of an HTML listing, read back from the document
AnchorsOf(doc) ==
    { [path |-> doc[3 * i - 2], module |-> doc[3 * i - 1], text |-> doc[3 * i]] :
        i \in 1..(Len(doc) \div 3) }

\* C12: with Accept exactly "application/json" the answer is a JSON object
\* whose key set is the set of registered module names; with any other
\* Accept it is an HTML document with exactly one link per registered
\* module, "<proxy-path>?module=<name>", whose path is the configured proxy
\* path, the path the mux serves the proxy operation on.
C12_Listing ==
    Listed =>
        IF req.accept = "application/json"
        THEN /\ body.msg = "application/json"
             /\ { body.arg[i] : i \in 1..Len(body.arg) } = cfg.modules
             /\ Len(body.arg) = Cardinality(cfg.modules)
        ELSE /\ body.msg = "text/html; charset=utf-8"
             /\ Len(body.arg) = 3 * Cardinality(cfg.modules)
             /\ { a.module : a \in AnchorsOf(body.arg) } = cfg.modules
             /\ \A a \in AnchorsOf(body.arg) :
                    /\ a.path = cfg.proxyPath
                    /\ Mux(a.path) = "doProxy"

\* what the code does: the JSON keys and the HTML links are those of the
\* registry, and every link has the path "/proxy" whatever the proxy path is
C12_LinksToDefaultPath ==
    Listed =>
        IF req.accept = "application/json"
        THEN /\ body.msg = "application/json"
             /\ { body.arg[i] : i \in 1..Len(body.arg) } = cfg.modules
             /\ Len(body.arg) = Cardinality(cfg.modules)
        ELSE /\ body.msg = "text/html; charset=utf-8"
             /\ Len(body.arg) = 3 * Cardinality(cfg.modules)
             /\ { a.module : a \in AnchorsOf(body.arg) } = cfg.modules
             /\ \A a \in AnchorsOf(body.arg) : a.path = ProxyPath /\ a.text = a.module

\* a listing whose links lead back to the listing: the proxy operation is
\* served on another path
C12_DeadLinks ==
    /\ Listed
    /\ req.accept # "application/json"
    /\ cfg.modules # {}
    /\ \A a \in AnchorsOf(body.arg) : Mux(a.path) = "listModules"

====
